---- MODULE Spec2Model ----
(***************************************************************************)
(* A model of pip/_internal/pep425tags.py: the platform identity, the ARM  *)
(* hard-float probe, the manylinux predicates, the platform expansion and  *)
(* get_supported.                                                          *)
(*                                                                         *)
(* Python strings are sequences of tokens: a maximal run of letters is one *)
(* token ("linux"), every digit and every punctuation character is a token *)
(* of its own ("8", "_", ".", "-").  "linux_x86_64" is                     *)
(* <<"linux","_","x","8","6","_","6","4">>.  An Optional value is a        *)
(* sequence of length 0 (None) or 1.  A call's outcome is a record         *)
(* [exc, val, trace]: exc is "" or the exception's name, trace the set of  *)
(* environment queries the call evaluated.                                 *)
(***************************************************************************)
EXTENDS Integers, Sequences, FiniteSets, TLC

VARIABLES env, op, args, ret

vars == <<env, op, args, ret>>

\* ------------------------------------------------------------ bounds
\* the largest minor version of the running interpreter (3.0 .. 3.MaxMinor)
MaxMinor == 2

\* ------------------------------------------------------------ strings
None == <<>>

Some(x) == <<x>>

Digits == {"0", "1", "2", "3", "4", "5", "6", "7", "8", "9"}

DigitVal(t) ==
  CASE t = "0" -> 0 [] t = "1" -> 1 [] t = "2" -> 2 [] t = "3" -> 3
    [] t = "4" -> 4 [] t = "5" -> 5 [] t = "6" -> 6 [] t = "7" -> 7
    [] t = "8" -> 8 [] t = "9" -> 9

DigitTok(n) ==
  CASE n = 0 -> "0" [] n = 1 -> "1" [] n = 2 -> "2" [] n = 3 -> "3"
    [] n = 4 -> "4" [] n = 5 -> "5" [] n = 6 -> "6" [] n = 7 -> "7"
    [] n = 8 -> "8" [] n = 9 -> "9"

\* the number of characters of a letters token
WordLen(t) ==
  CASE t \in {"x", "i", "l", "m", "d", "u", "s"} -> 1
    [] t \in {"cp", "pp", "zz", "py", "ZZ", "le"} -> 2
    [] t \in {"ppc", "win", "amd", "arm", "abi", "any", "gnu"} -> 3
    [] t \in {"none", "NONE", "armv", "pypy"} -> 4
    [] t \in {"linux", "aarch"} -> 5
    [] t = "macosx" -> 6
    [] t = "cpython" -> 7
    [] t = "manylinux" -> 9
    [] t = "macosxcustom" -> 12

TokLen(t) == IF t \in Digits \cup {"_", ".", "-"} THEN 1 ELSE WordLen(t)

RECURSIVE CharLen(_)
CharLen(s) == IF s = <<>> THEN 0 ELSE TokLen(Head(s)) + CharLen(Tail(s))

\* s[n:], for n on a token boundary
RECURSIVE DropChars(_, _)
DropChars(s, n) ==
  IF n <= 0 \/ s = <<>> THEN s ELSE DropChars(Tail(s), n - TokLen(Head(s)))

\* str(n) for n >= 0
RECURSIVE StrOfNat(_)
StrOfNat(n) ==
  IF n < 10 THEN <<DigitTok(n)>>
  ELSE StrOfNat(n \div 10) \o <<DigitTok(n % 10)>>

AllDigits(s) == s # <<>> /\ \A i \in 1..Len(s) : s[i] \in Digits

RECURSIVE DigitsValue(_)
DigitsValue(s) ==
  IF s = <<>> THEN 0
  ELSE 10 * DigitsValue(SubSeq(s, 1, Len(s) - 1)) + DigitVal(s[Len(s)])

\* ''.join(map(str, t)) for a tuple of naturals
RECURSIVE JoinNats(_)
JoinNats(t) == IF t = <<>> THEN <<>> ELSE StrOfNat(Head(t)) \o JoinNats(Tail(t))

\* s.replace('.', '_').replace('-', '_')
ReplaceSeps(s) ==
  [i \in 1..Len(s) |-> IF s[i] \in {".", "-"} THEN "_" ELSE s[i]]

\* the index of the first token c of s, 0 when there is none
FirstIndex(s, c) ==
  IF \E i \in 1..Len(s) : s[i] = c
  THEN CHOOSE i \in 1..Len(s) : s[i] = c /\ \A j \in 1..(i - 1) : s[j] # c
  ELSE 0

\* s.partition(c): <<before, separator, after>>
Partition(s, c) ==
  LET i == FirstIndex(s, c)
  IN IF i = 0 THEN <<s, <<>>, <<>>>>
     ELSE <<SubSeq(s, 1, i - 1), <<c>>, SubSeq(s, i + 1, Len(s))>>

\* s.split(c): the list of the pieces between the separators
RECURSIVE Split(_, _)
Split(s, c) ==
  LET i == FirstIndex(s, c)
  IN IF i = 0 THEN <<s>>
     ELSE <<SubSeq(s, 1, i - 1)>> \o Split(SubSeq(s, i + 1, Len(s)), c)

\* str.lower() on a token
LowerTok(t) == CASE t = "ZZ" -> "zz" [] t = "NONE" -> "none" [] OTHER -> t

Lower(s) == [i \in 1..Len(s) |-> LowerTok(s[i])]

\* a Python truth test of an Optional[str]: None and '' are false
Truthy(o) == o # None /\ o[1] # <<>>

\* the lexicographic order of two version pairs
PairLess(a, b) == a[1] < b[1] \/ (a[1] = b[1] /\ a[2] < b[2])

Ok(v, t) == [exc |-> "", val |-> v, trace |-> t]

Raise(e, t) == [exc |-> e, val |-> <<>>, trace |-> t]

\* ------------------------------------------------------------ literals
S_linux_x86_64 == <<"linux", "_", "x", "8", "6", "_", "6", "4">>
S_linux_i686 == <<"linux", "_", "i", "6", "8", "6">>
S_linux_aarch64 == <<"linux", "_", "aarch", "6", "4">>
S_linux_armv7l == <<"linux", "_", "armv", "7", "l">>
S_linux_ppc64 == <<"linux", "_", "ppc", "6", "4">>
S_linux_ppc64le == <<"linux", "_", "ppc", "6", "4", "le">>
S_linux_s390x == <<"linux", "_", "s", "3", "9", "0", "x">>
S_x86_64 == <<"x", "8", "6", "_", "6", "4">>
S_i686 == <<"i", "6", "8", "6">>
S_i386 == <<"i", "3", "8", "6">>
S_ppc64 == <<"ppc", "6", "4">>
S_ppc == <<"ppc">>
S_manylinux2014 == <<"manylinux", "2", "0", "1", "4">>
S_manylinux2010 == <<"manylinux", "2", "0", "1", "0">>
S_manylinux1 == <<"manylinux", "1">>
S_none == <<"none">>
S_any == <<"any">>
S_abi3 == <<"abi", "3">>
S_cp == <<"cp">>
S_pp == <<"pp">>
S_py == <<"py">>

\* ------------------------------------------------------------ get_platform
IsRunning32bit(e) == e.is32

GetPlatform(e) ==
  IF e.sys_platform = "darwin"
  THEN LET split_ver == Split(e.mac_release, ".")
           machine ==
             IF e.mac_machine = S_x86_64 /\ IsRunning32bit(e) THEN S_i386
             ELSE IF e.mac_machine = S_ppc64 /\ IsRunning32bit(e) THEN S_ppc
             ELSE e.mac_machine
       IN IF Len(split_ver) < 2
          THEN Raise("IndexError", {"get_platform"})
          ELSE Ok(<<"macosx", "_">> \o split_ver[1] \o <<"_">> \o split_ver[2]
                    \o <<"_">> \o machine, {"get_platform"})
  ELSE LET result == ReplaceSeps(e.distutils_platform)
       IN Ok(IF result = S_linux_x86_64 /\ IsRunning32bit(e)
             THEN S_linux_i686 ELSE result, {"get_platform"})

\* ------------------------------------------------------------ is_linux_armhf
ElfReadLen == 40

\* the bytes f.read(40) returns: at most 40 of the file's bytes
ReadHeader(e) ==
  IF Len(e.exe_bytes) <= ElfReadLen THEN e.exe_bytes
  ELSE SubSeq(e.exe_bytes, 1, ElfReadLen)

\* lst[a:b] of a Python list, 0-based, end exclusive
Slice(lst, a, b) ==
  LET hi == IF b > Len(lst) THEN Len(lst) ELSE b
  IN IF a >= hi THEN <<>> ELSE SubSeq(lst, a + 1, hi)

\* mutant: the flag byte compared with 4 instead of masked
Bit4SetCompared(b) == b >= 4

\* b & 4 == 4
Bit4Set(b) == (b \div 4) % 2 = 1

\* is_linux_armhf after its call of get_platform, whose outcome is p
ArmhfOn(e, p) ==
  IF p.exc # "" THEN p
  ELSE IF p.val # S_linux_armv7l THEN Ok(FALSE, p.trace)
  ELSE IF ~e.exe_ok THEN Ok(FALSE, p.trace \cup {"elf"})
  ELSE IF Len(ReadHeader(e)) < ElfReadLen THEN Ok(FALSE, p.trace \cup {"elf"})
  ELSE Ok(/\ Slice(ReadHeader(e), 0, 4) = <<127, 69, 76, 70>>
          /\ Slice(ReadHeader(e), 4, 5) = <<1>>
          /\ Slice(ReadHeader(e), 5, 6) = <<1>>
          /\ Slice(ReadHeader(e), 18, 20) = <<40, 0>>
          /\ Slice(ReadHeader(e), 39, 40) = <<5>>
          /\ Bit4Set(Slice(ReadHeader(e), 37, 38)[1]), p.trace \cup {"elf"})

IsLinuxArmhf(e) == ArmhfOn(e, GetPlatform(e))

\* ------------------------------------------------------------ manylinux
\* pip._internal.utils.glibc.have_compatible_glibc(required_major, minimum_minor)
HaveCompatibleGlibc(e, major, minor) ==
  /\ e.glibc # None
  /\ e.glibc[1] = major
  /\ e.glibc[2] >= minor

\* import _manylinux; bool(_manylinux.<attr>): "true", "false", or "missing"
\* when the import or the attribute lookup fails
MarkerSays(e, attr) == IF e.marker_present THEN e.marker[attr] ELSE "missing"

\* the tail shared by the three predicates: marker module, then glibc
MarkerThenGlibc(e, attr, major, minor, t) ==
  IF MarkerSays(e, attr) # "missing"
  THEN Ok(MarkerSays(e, attr) = "true", t \cup {"marker"})
  ELSE Ok(HaveCompatibleGlibc(e, major, minor), t \cup {"marker", "glibc"})

\* is_manylinux1_compatible after its call of get_platform, whose outcome is p
Manylinux1On(e, p) ==
  IF p.exc # "" THEN p
  ELSE IF p.val \notin {S_linux_x86_64, S_linux_i686} THEN Ok(FALSE, p.trace)
  ELSE MarkerThenGlibc(e, "manylinux1_compatible", 2, 5, p.trace)

IsManylinux1Compatible(e) == Manylinux1On(e, GetPlatform(e))

\* mutant: the manylinux1 floor (glibc 2.5) copied into the manylinux2010 check
Manylinux2010OnFloor5(e, p) ==
  IF p.exc # "" THEN p
  ELSE IF p.val \notin {S_linux_x86_64, S_linux_i686} THEN Ok(FALSE, p.trace)
  ELSE MarkerThenGlibc(e, "manylinux2010_compatible", 2, 5, p.trace)

Manylinux2010On(e, p) ==
  IF p.exc # "" THEN p
  ELSE IF p.val \notin {S_linux_x86_64, S_linux_i686} THEN Ok(FALSE, p.trace)
  ELSE MarkerThenGlibc(e, "manylinux2010_compatible", 2, 12, p.trace)

IsManylinux2010Compatible(e) == Manylinux2010On(e, GetPlatform(e))

\* hf is the outcome of is_linux_armhf, read only on linux_armv7l
Manylinux2014On(e, p, hf) ==
  IF p.exc # "" THEN p
  ELSE IF p.val \notin {S_linux_x86_64, S_linux_i686, S_linux_aarch64,
                        S_linux_armv7l, S_linux_ppc64, S_linux_ppc64le,
                        S_linux_s390x}
  THEN Ok(FALSE, p.trace)
  ELSE IF p.val # S_linux_armv7l
  THEN MarkerThenGlibc(e, "manylinux2014_compatible", 2, 17, p.trace)
  ELSE IF hf.exc # "" THEN hf
  ELSE IF ~hf.val THEN Ok(FALSE, p.trace \cup hf.trace)
  ELSE MarkerThenGlibc(e, "manylinux2014_compatible", 2, 17,
                       p.trace \cup hf.trace)

IsManylinux2014Compatible(e) ==
  Manylinux2014On(e, GetPlatform(e), IsLinuxArmhf(e))

\* ------------------------------------------------------------ expansion
\* arch.startswith('macosx'): the first token is a word that begins so
StartsWithMacosx(s) == s # <<>> /\ s[1] \in {"macosx", "macosxcustom"}

\* the index of the first "_" of s after position i, 0 when there is none
NextUnderscore(s, i) ==
  IF \E j \in (i + 1)..Len(s) : s[j] = "_"
  THEN CHOOSE j \in (i + 1)..Len(s) :
         s[j] = "_" /\ \A k \in (i + 1)..(j - 1) : s[k] # "_"
  ELSE 0

\* the positions i of a "_" at which (.+)_(\d+)_(\d+)_(.+) can split s:
\* a non-empty name before i, two runs of digits, a non-empty rest
OsxSplits(s) ==
  {i \in 2..Len(s) :
     /\ s[i] = "_"
     /\ LET j == NextUnderscore(s, i)
            k == IF j = 0 THEN 0 ELSE NextUnderscore(s, j)
        IN /\ j # 0 /\ k # 0
           /\ AllDigits(SubSeq(s, i + 1, j - 1))
           /\ AllDigits(SubSeq(s, j + 1, k - 1))
           /\ k < Len(s)}

\* _osx_arch_pat.match(arch): None, or the four groups of the greedy match
OsxArchMatch(s) ==
  IF OsxSplits(s) = {} THEN None
  ELSE LET i == CHOOSE x \in OsxSplits(s) : \A y \in OsxSplits(s) : y <= x
           j == NextUnderscore(s, i)
           k == NextUnderscore(s, j)
       IN Some(<<SubSeq(s, 1, i - 1), SubSeq(s, i + 1, j - 1),
                 SubSeq(s, j + 1, k - 1), SubSeq(s, k + 1, Len(s))>>)

\* packaging.tags.mac_platforms(version, arch): the baselines from the given
\* minor version down to the oldest one supported for the architecture
RECURSIVE MacBaselines(_, _, _, _)
MacBaselines(major, minor, oldest, arch) ==
  IF minor < oldest THEN <<>>
  ELSE <<(<<"macosx", "_">> \o StrOfNat(major) \o <<"_">> \o StrOfNat(minor)
            \o <<"_">> \o arch)>>
       \o MacBaselines(major, minor - 1, oldest, arch)

MacPlatformsExt(version, arch) ==
  MacBaselines(version[1], version[2],
               IF version[1] = 10 /\ arch \in {S_x86_64, S_i386} THEN 4 ELSE 0,
               arch)

MacPlatforms(arch) ==
  LET match == OsxArchMatch(arch)
  IN IF match # None
     THEN LET name == match[1][1]
              mac_version == <<DigitsValue(match[1][2]), DigitsValue(match[1][3])>>
              actual_arch == match[1][4]
              gen == MacPlatformsExt(mac_version, actual_arch)
          IN [i \in 1..Len(gen) |->
                name \o <<"_">> \o DropChars(gen[i], CharLen(<<"macosx", "_">>))]
     ELSE <<arch>>

CustomManylinuxPlatforms(arch) ==
  LET part == Partition(arch, "_")
      arch_prefix == part[1]
      arch_sep == part[2]
      arch_suffix == part[3]
  IN IF arch_prefix = S_manylinux2014
     THEN IF arch_suffix \in {S_i686, S_x86_64}
          THEN <<arch, S_manylinux2010 \o arch_sep \o arch_suffix,
                 S_manylinux1 \o arch_sep \o arch_suffix>>
          ELSE <<arch>>
     ELSE IF arch_prefix = S_manylinux2010
     THEN <<arch, S_manylinux1 \o arch_sep \o arch_suffix>>
     ELSE <<arch>>

\* the environment-probing branch of _get_custom_platforms, given the
\* outcomes of the three predicates
ProbedOn(arch, tail, c2014, c2010, c1) ==
  IF c2014.exc # "" THEN c2014
  ELSE IF c2010.exc # "" THEN c2010
  ELSE IF c1.exc # "" THEN c1
  ELSE Ok((IF c2014.val THEN <<S_manylinux2014 \o tail>> ELSE <<>>)
          \o (IF c2010.val THEN <<S_manylinux2010 \o tail>> ELSE <<>>)
          \o (IF c1.val THEN <<S_manylinux1 \o tail>> ELSE <<>>)
          \o <<arch>>,
          c2014.trace \cup c2010.trace \cup c1.trace)

\* tail is arch_sep + arch_suffix
ProbedPlatforms(e, arch) ==
  ProbedOn(arch, Partition(arch, "_")[2] \o Partition(arch, "_")[3],
           IsManylinux2014Compatible(e), IsManylinux2010Compatible(e),
           IsManylinux1Compatible(e))

\* mutant: the environment is probed even when the platform was given
GetCustomPlatformsAlwaysProbing(e, arch, platform) ==
  IF StartsWithMacosx(arch) THEN Ok(MacPlatforms(arch), {})
  ELSE IF Partition(arch, "_")[1] \in {S_manylinux2014, S_manylinux2010}
  THEN Ok(CustomManylinuxPlatforms(arch), {})
  ELSE ProbedPlatforms(e, arch)

\* _get_custom_platforms(arch, platform); platform is an Optional[str]
GetCustomPlatforms(e, arch, platform) ==
  LET arch_prefix == Partition(arch, "_")[1]
  IN IF StartsWithMacosx(arch) THEN Ok(MacPlatforms(arch), {})
     ELSE IF arch_prefix \in {S_manylinux2014, S_manylinux2010}
     THEN Ok(CustomManylinuxPlatforms(arch), {})
     ELSE IF platform = None THEN ProbedPlatforms(e, arch)
     ELSE Ok(<<arch>>, {})

\* ------------------------------------------------------------ interpreter
\* packaging.tags.interpreter_name()
InterpreterName(e) == e.interp_name

\* packaging.tags.interpreter_version(): the running version without the dot
InterpreterVersion(e) == JoinNats(SubSeq(e.version_info, 1, 2))

GetImplVersionInfo(e) ==
  IF InterpreterName(e) = S_pp
  THEN <<e.version_info[1], e.pypy_version_info[1], e.pypy_version_info[2]>>
  ELSE <<e.version_info[1], e.version_info[2]>>

\* get_flag(var, fallback, expected): the config variable when it is set
GetFlag(e, var, fallback, expected) ==
  IF e.cfg[var] = None THEN fallback ELSE e.cfg[var][1] = expected

GetAbiTag(e) ==
  LET soabi == e.soabi
      impl == InterpreterName(e)
      is_cpython == impl = S_cp
      vi == SubSeq(e.version_info, 1, 2)
  IN IF ~Truthy(soabi) /\ impl \in {S_cp, S_pp} /\ e.has_maxunicode
     THEN LET d == IF GetFlag(e, "Py_DEBUG", e.has_gettotalrefcount, 1)
                   THEN <<"d">> ELSE <<>>
              m == IF PairLess(vi, <<3, 8>>)
                      /\ GetFlag(e, "WITH_PYMALLOC", is_cpython, 1)
                   THEN <<"m">> ELSE <<>>
              u == IF PairLess(vi, <<3, 3>>)
                      /\ GetFlag(e, "Py_UNICODE_SIZE", e.maxunicode_wide, 4)
                   THEN <<"u">> ELSE <<>>
          IN Some(impl \o InterpreterVersion(e) \o d \o m \o u)
     ELSE IF Truthy(soabi) /\ Len(soabi[1]) >= 2
             /\ SubSeq(soabi[1], 1, 2) = <<"cpython", "-">>
     THEN Some(S_cp \o Split(soabi[1], "-")[2])
     ELSE IF Truthy(soabi) THEN Some(ReplaceSeps(soabi[1]))
     ELSE None

RECURSIVE MinorVersionsFrom(_, _)
MinorVersionsFrom(major, minor) ==
  IF minor < 0 THEN <<>>
  ELSE <<JoinNats(major \o <<minor>>)>> \o MinorVersionsFrom(major, minor - 1)

GetAllMinorVersionsAsStrings(version_info) ==
  MinorVersionsFrom(SubSeq(version_info, 1, Len(version_info) - 1),
                    version_info[Len(version_info)])

\* _get_python_version(version): int() of the first character and of the rest
GetPythonVersion(version) ==
  IF CharLen(version) > 1
  THEN IF Head(version) \notin Digits \/ ~AllDigits(Tail(version))
       THEN Raise("ValueError", {})
       ELSE Ok(<<DigitVal(Head(version)), DigitsValue(Tail(version))>>, {})
  ELSE IF version = <<>> THEN Raise("IndexError", {})
  ELSE IF Head(version) \notin Digits THEN Raise("ValueError", {})
  ELSE Ok(<<DigitVal(Head(version))>>, {})

GetCustomInterpreter(e, implementation, version) ==
  (IF implementation = None THEN InterpreterName(e) ELSE implementation[1])
  \o (IF version = None THEN InterpreterVersion(e) ELSE version[1])

\* the tags (interp, abi, p) for every abi, then every platform
RECURSIVE TagsFor(_, _, _)
TagsFor(interp, abis, platforms) ==
  IF abis = <<>> THEN <<>>
  ELSE [i \in 1..Len(platforms) |-> <<interp, Head(abis), platforms[i]>>]
       \o TagsFor(interp, Tail(abis), platforms)

\* the tags (interp, abi, p) for every platform, then every abi
RECURSIVE TagsPlatformMajor(_, _, _)
TagsPlatformMajor(interp, abis, platforms) ==
  IF platforms = <<>> THEN <<>>
  ELSE [i \in 1..Len(abis) |-> <<interp, abis[i], Head(platforms)>>]
       \o TagsPlatformMajor(interp, abis, Tail(platforms))

\* mutant: the two loops of _generic_tags swapped (platforms outside, abis inside)
GenericOnLoopsSwapped(e, version, impl, abi, arches) ==
  LET versions == IF version = None
                  THEN GetAllMinorVersionsAsStrings(GetImplVersionInfo(e))
                  ELSE <<version[1]>>
      impl2 == IF Truthy(impl) THEN impl[1] ELSE InterpreterName(e)
      abi2 == IF Truthy(abi) THEN abi ELSE GetAbiTag(e)
      abis == (IF Truthy(abi2) THEN <<abi2[1]>> ELSE <<>>) \o <<S_none>>
  IN IF arches.exc # "" THEN arches
     ELSE Ok([tags |-> TagsPlatformMajor(impl2 \o versions[1], abis, arches.val),
              arches |-> arches.val], arches.trace)

\* the end of _generic_tags, given the outcome of _get_custom_platforms
GenericOn(e, version, impl, abi, arches) ==
  LET versions == IF version = None
                  THEN GetAllMinorVersionsAsStrings(GetImplVersionInfo(e))
                  ELSE <<version[1]>>
      current_version == versions[1]
      impl2 == IF Truthy(impl) THEN impl[1] ELSE InterpreterName(e)
      abi2 == IF Truthy(abi) THEN abi ELSE GetAbiTag(e)
      abis == (IF Truthy(abi2) THEN <<abi2[1]>> ELSE <<>>) \o <<S_none>>
  IN IF arches.exc # "" THEN arches
     ELSE Ok([tags |-> TagsFor(impl2 \o current_version, abis, arches.val),
              arches |-> arches.val], arches.trace)

\* plat is the outcome of 'platform or get_platform()'
GenericAt(e, version, platform, impl, abi, plat) ==
  IF plat.exc # "" THEN plat
  ELSE GenericOn(e, version, impl, abi,
                 GetCustomPlatforms(e, plat.val, platform))

\* _generic_tags: val is [tags, arches]
GenericTags(e, version, platform, impl, abi) ==
  GenericAt(e, version, platform, impl, abi,
            IF Truthy(platform) THEN Ok(platform[1], {}) ELSE GetPlatform(e))

\* Tag(*parts): every field lower-cased
MakeTag(parts) == <<Lower(parts[1]), Lower(parts[2]), Lower(parts[3])>>

\* the loop of _stable_unique_tags, with the tags observed so far
RECURSIVE UniqueFrom(_, _)
UniqueFrom(tags, observed) ==
  IF tags = <<>> THEN <<>>
  ELSE IF Head(tags) \in observed THEN UniqueFrom(Tail(tags), observed)
  ELSE <<Head(tags)>> \o UniqueFrom(Tail(tags), observed \cup {Head(tags)})

\* mutant: a repeated tag keeps its last occurrence, not its first
RECURSIVE StableUniqueTagsLastWins(_)
StableUniqueTagsLastWins(tags) ==
  IF tags = <<>> THEN <<>>
  ELSE IF \E i \in 2..Len(tags) : tags[i] = Head(tags)
  THEN StableUniqueTagsLastWins(Tail(tags))
  ELSE <<Head(tags)>> \o StableUniqueTagsLastWins(Tail(tags))

StableUniqueTags(tags) == UniqueFrom(tags, {})

\* ------------------------------------------------------------ generators
\* packaging's own platform list, used when a generator is given none: on
\* Linux the newest manylinux tier the marker module or glibc allows and every
\* older tier, then the raw platform
PkgTierOk(e, attr, minor) ==
  IF MarkerSays(e, attr) # "missing" THEN MarkerSays(e, attr) = "true"
  ELSE HaveCompatibleGlibc(e, 2, minor)

LinuxTiers(e, raw, tail) ==
  IF PkgTierOk(e, "manylinux2014_compatible", 17)
  THEN <<S_manylinux2014 \o tail, S_manylinux2010 \o tail, S_manylinux1 \o tail, raw>>
  ELSE IF PkgTierOk(e, "manylinux2010_compatible", 12)
  THEN <<S_manylinux2010 \o tail, S_manylinux1 \o tail, raw>>
  ELSE IF PkgTierOk(e, "manylinux1_compatible", 5)
  THEN <<S_manylinux1 \o tail, raw>>
  ELSE <<raw>>

DefaultPlatformsOn(e, p) ==
  IF p.exc # "" THEN <<>>
  ELSE IF StartsWithMacosx(p.val) THEN MacPlatforms(p.val)
  ELSE IF Head(p.val) # "linux" THEN <<p.val>>
  ELSE LinuxTiers(e, p.val, Partition(p.val, "_")[2] \o Partition(p.val, "_")[3])

DefaultPlatformTags(e) == DefaultPlatformsOn(e, GetPlatform(e))

\* the platform list a generator walks, given its platforms argument
EffectivePlatforms(e, platforms) ==
  IF platforms = None \/ platforms[1] = <<>> THEN DefaultPlatformTags(e)
  ELSE platforms[1]

\* the version tuple a generator uses, given its python_version argument
EffectiveVersion(e, python_version) ==
  IF python_version = None THEN SubSeq(e.version_info, 1, 2)
  ELSE python_version[1]

NoDot(pv) == JoinNats(IF Len(pv) > 2 THEN SubSeq(pv, 1, 2) ELSE pv)

RemoveAll(lst, x) == SelectSeq(lst, LAMBDA y : y # x)

RECURSIVE Flatten(_)
Flatten(lists) == IF lists = <<>> THEN <<>> ELSE Head(lists) \o Flatten(Tail(lists))

\* the minor versions minor, minor - 1, ..., low
RECURSIVE Descending(_, _)
Descending(minor, low) ==
  IF minor < low THEN <<>> ELSE <<minor>> \o Descending(minor - 1, low)

CpythonTagsOn(pv, exact, plats) ==
  TagsFor(S_cp \o NoDot(pv), exact \o <<S_abi3, S_none>>, plats)
  \o (IF Len(pv) > 1
      THEN Flatten([i \in 1..Len(Descending(pv[2] - 1, 2)) |->
                      TagsFor(S_cp \o JoinNats(<<pv[1], Descending(pv[2] - 1, 2)[i]>>),
                              <<S_abi3>>, plats)])
      ELSE <<>>)

\* packaging.tags.cpython_tags(python_version, abis, platforms)
CpythonTagsExt(e, python_version, abis, platforms) ==
  CpythonTagsOn(EffectiveVersion(e, python_version),
                RemoveAll(RemoveAll(
                  IF abis # None THEN abis[1]
                  ELSE IF Len(EffectiveVersion(e, python_version)) > 1
                          /\ GetAbiTag(e) # None
                  THEN <<GetAbiTag(e)[1]>>
                  ELSE <<>>, S_abi3), S_none),
                EffectivePlatforms(e, platforms))

\* packaging.tags._py_interpreter_range(py_version)
PyInterpreterRange(pv) ==
  (IF Len(pv) > 1 THEN <<S_py \o NoDot(pv)>> ELSE <<>>)
  \o <<S_py \o StrOfNat(pv[1])>>
  \o (IF Len(pv) > 1
      THEN LET older == Descending(pv[2] - 1, 0)
           IN [i \in 1..Len(older) |-> S_py \o JoinNats(<<pv[1], older[i]>>)]
      ELSE <<>>)

CompatibleTagsOn(range, interpreter, plats) ==
  Flatten([i \in 1..Len(range) |-> TagsFor(range[i], <<S_none>>, plats)])
  \o (IF interpreter # <<>> THEN <<(<<interpreter, S_none, S_any>>)>> ELSE <<>>)
  \o [i \in 1..Len(range) |-> <<range[i], S_none, S_any>>]

\* packaging.tags.compatible_tags(python_version, interpreter, platforms)
CompatibleTagsExt(e, python_version, interpreter, platforms) ==
  CompatibleTagsOn(PyInterpreterRange(EffectiveVersion(e, python_version)),
                   interpreter, EffectivePlatforms(e, platforms))

MakeTags(parts) == [i \in 1..Len(parts) |-> MakeTag(parts[i])]

\* ------------------------------------------------------------ get_supported
\* val is [tags: the result, first: the tags of cpython_tags or _generic_tags,
\* second: the tags of compatible_tags, used: the platform list the first
\* generator walked, compat: the platform list compatible_tags walked]
Assemble(first, second, compat) ==
  IF first.exc # "" THEN first
  ELSE Ok([tags |-> StableUniqueTags(MakeTags(first.val.tags) \o MakeTags(second)),
           first |-> MakeTags(first.val.tags),
           second |-> MakeTags(second),
           used |-> first.val.arches,
           compat |-> compat], first.trace)

\* get_supported from line 398 on, given the outcomes of _get_python_version
\* and of _get_custom_platforms(platform, platform)
SupportedOn(e, version, platform, impl, abi, pyver, plat) ==
  LET python_version == IF version # None THEN Some(pyver.val) ELSE None
      abis == IF abi # None THEN Some(<<abi[1]>>) ELSE None
      platforms == IF platform # None THEN Some(plat.val) ELSE None
      is_cpython == (IF Truthy(impl) THEN impl[1] ELSE InterpreterName(e)) = S_cp
  IN IF pyver.exc # "" THEN pyver
     ELSE IF plat.exc # "" THEN plat
     ELSE Assemble(
            IF is_cpython
            THEN Ok([tags |-> CpythonTagsExt(e, python_version, abis, platforms),
                     arches |-> EffectivePlatforms(e, platforms)], plat.trace)
            ELSE GenericTags(e, version, platform, impl, abi),
            CompatibleTagsExt(e, python_version,
                              GetCustomInterpreter(e, impl, version), platforms),
            EffectivePlatforms(e, platforms))

GetSupported(e, version, platform, impl, abi) ==
  SupportedOn(e, version, platform, impl, abi,
              IF version # None THEN GetPythonVersion(version[1]) ELSE Ok(<<>>, {}),
              IF platform # None THEN GetCustomPlatforms(e, platform[1], platform)
              ELSE Ok(<<>>, {}))

\* ------------------------------------------------------------ environments
MarkerAttrs ==
  {"manylinux1_compatible", "manylinux2010_compatible", "manylinux2014_compatible"}

CfgVars == {"Py_DEBUG", "WITH_PYMALLOC", "Py_UNICODE_SIZE"}

\* the first 40 bytes of a hard-float ARM executable
GoodHeader ==
  [i \in 1..ElfReadLen |->
     CASE i = 1 -> 127 [] i = 2 -> 69 [] i = 3 -> 76 [] i = 4 -> 70
       [] i = 5 -> 1 [] i = 6 -> 1 [] i = 19 -> 40 [] i = 38 -> 4
       [] i = 40 -> 5 [] OTHER -> 0]

D_linux_x86_64 == <<"linux", "-", "x", "8", "6", "_", "6", "4">>
D_linux_i686 == <<"linux", "-", "i", "6", "8", "6">>
D_linux_aarch64 == <<"linux", "-", "aarch", "6", "4">>
D_linux_armv7l == <<"linux", "-", "armv", "7", "l">>
D_win32 == <<"win", "3", "2">>
D_win_amd64 == <<"win", "-", "amd", "6", "4">>

BaseEnv ==
  [sys_platform |-> "linux",
   mac_release |-> <<>>,
   mac_machine |-> <<>>,
   is32 |-> FALSE,
   distutils_platform |-> D_linux_x86_64,
   marker_present |-> FALSE,
   marker |-> [a \in MarkerAttrs |-> "missing"],
   glibc |-> None,
   exe_ok |-> TRUE,
   exe_bytes |-> GoodHeader,
   soabi |-> None,
   interp_name |-> S_cp,
   version_info |-> <<3, 0>>,
   pypy_version_info |-> <<7, 1>>,
   cfg |-> [v \in CfgVars |-> None],
   has_gettotalrefcount |-> FALSE,
   maxunicode_wide |-> TRUE,
   has_maxunicode |-> TRUE]

MacReleases ==
  {<<>>, <<"1", "0">>, <<"1", "0", ".", "5">>, <<"1", "0", ".", "5", ".", "8">>,
   <<"1", "0", ".", "3", ".", "9">>, <<"1", "1", ".", "0">>}

MacMachines == {S_x86_64, S_ppc64, S_i386, <<"arm", "6", "4">>}

DistutilsPlatforms ==
  {D_linux_x86_64, D_linux_i686, D_linux_aarch64, D_linux_armv7l, D_win32,
   D_win_amd64}

DarwinEnvs ==
  {[BaseEnv EXCEPT !.sys_platform = "darwin", !.mac_release = r,
                   !.mac_machine = m, !.is32 = b] :
     r \in MacReleases, m \in MacMachines, b \in BOOLEAN}

PlatformEnvs ==
  DarwinEnvs
  \cup {[BaseEnv EXCEPT !.distutils_platform = d, !.is32 = b] :
          d \in DistutilsPlatforms, b \in BOOLEAN}

ByteAlts == {0, 1, 2, 4, 5, 6, 40, 127, 255}

ExeReads ==
  {[ok |-> TRUE, bytes |-> [GoodHeader EXCEPT ![i] = v]] :
     i \in 1..ElfReadLen, v \in ByteAlts}
  \cup {[ok |-> TRUE, bytes |-> SubSeq(GoodHeader, 1, n)] : n \in 0..(ElfReadLen - 1)}
  \cup {[ok |-> TRUE, bytes |-> GoodHeader \o <<0, 9>>],
        [ok |-> FALSE, bytes |-> <<>>]}

ArmhfEnvs ==
  {[BaseEnv EXCEPT !.distutils_platform = D_linux_armv7l, !.exe_ok = x.ok,
                   !.exe_bytes = x.bytes] : x \in ExeReads}
  \cup {[BaseEnv EXCEPT !.distutils_platform = d] :
          d \in {D_linux_x86_64, D_linux_aarch64, D_win32}}
  \cup {[BaseEnv EXCEPT !.sys_platform = "darwin", !.mac_release = r,
                        !.mac_machine = S_x86_64] :
          r \in {<<>>, <<"1", "0", ".", "5">>}}

Markers ==
  {[present |-> FALSE, attrs |-> [a \in MarkerAttrs |-> "missing"]]}
  \cup {[present |-> TRUE, attrs |-> f] :
          f \in [MarkerAttrs -> {"missing", "true", "false"}]}

Glibcs ==
  {None, <<2, 4>>, <<2, 5>>, <<2, 11>>, <<2, 12>>, <<2, 16>>, <<2, 17>>, <<3, 0>>}

SoftFloatHeader == [GoodHeader EXCEPT ![38] = 2]

ManylinuxEnvs ==
  {[BaseEnv EXCEPT !.distutils_platform = d, !.is32 = b,
                   !.marker_present = m.present, !.marker = m.attrs,
                   !.glibc = g, !.exe_bytes = h] :
     d \in DistutilsPlatforms \ {D_win_amd64}, b \in BOOLEAN, m \in Markers,
     g \in Glibcs, h \in {GoodHeader, SoftFloatHeader}}

\* the running interpreters: their name, SOABI and build configuration
Interpreters ==
  {[name |-> S_cp, soabi |-> None, cfg |-> [v \in CfgVars |-> None]],
   [name |-> S_cp,
    soabi |-> Some(<<"cpython", "-", "3", "2", "m", "-", "x", "8", "6", "_",
                     "6", "4", "-", "linux", "-", "gnu">>),
    cfg |-> [v \in CfgVars |-> None]],
   [name |-> S_cp, soabi |-> None,
    cfg |-> [v \in CfgVars |-> CASE v = "Py_DEBUG" -> Some(1)
                                 [] v = "WITH_PYMALLOC" -> Some(0)
                                 [] v = "Py_UNICODE_SIZE" -> Some(2)]],
   [name |-> S_pp, soabi |-> Some(<<"pypy", "-", "4", "1">>),
    cfg |-> [v \in CfgVars |-> None]],
   [name |-> <<"zz">>, soabi |-> None, cfg |-> [v \in CfgVars |-> None]]}

\* the hosts get_supported runs on
Hosts ==
  {[BaseEnv EXCEPT !.glibc = g] : g \in {None, <<2, 5>>, <<2, 17>>}}
  \cup {[BaseEnv EXCEPT !.distutils_platform = D_linux_aarch64, !.glibc = <<2, 17>>],
        [BaseEnv EXCEPT !.distutils_platform = D_win32],
        [BaseEnv EXCEPT !.sys_platform = "darwin",
                        !.mac_release = <<"1", "0", ".", "5", ".", "8">>,
                        !.mac_machine = S_x86_64],
        [BaseEnv EXCEPT !.sys_platform = "darwin", !.mac_release = <<>>,
                        !.mac_machine = S_x86_64]}

WithInterpreter(h, i, minor) ==
  [h EXCEPT !.interp_name = i.name, !.soabi = i.soabi, !.cfg = i.cfg,
            !.version_info = <<3, minor>>]

SupportedEnvs ==
  {WithInterpreter(h, CHOOSE i \in Interpreters : i.name = S_cp /\ i.soabi # None,
                   MaxMinor) : h \in Hosts}
  \cup {WithInterpreter([BaseEnv EXCEPT !.glibc = <<2, 17>>], i, minor) :
          i \in Interpreters, minor \in 0..MaxMinor}

\* ------------------------------------------------------------ arguments
P_manylinux2014_x86_64 == S_manylinux2014 \o <<"_">> \o S_x86_64
P_manylinux2014_aarch64 == S_manylinux2014 \o <<"_", "aarch", "6", "4">>
P_manylinux2010_i686 == S_manylinux2010 \o <<"_">> \o S_i686
P_manylinux2010_aarch64 == S_manylinux2010 \o <<"_", "aarch", "6", "4">>
P_manylinux1_x86_64 == S_manylinux1 \o <<"_">> \o S_x86_64
P_macosx_10_5_x86_64 == <<"macosx", "_", "1", "0", "_", "5", "_">> \o S_x86_64
P_macosx_10_3_x86_64 == <<"macosx", "_", "1", "0", "_", "3", "_">> \o S_x86_64
P_macosx_010_1_ppc == <<"macosx", "_", "0", "1", "0", "_", "1", "_", "ppc">>
P_macosxcustom_10_1_ppc == <<"macosxcustom", "_", "1", "0", "_", "1", "_", "ppc">>
P_macosx_x == <<"macosx", "_", "x">>

PlatformStrings ==
  {S_linux_x86_64, S_linux_armv7l, D_win32, P_manylinux2014_x86_64,
   P_manylinux2014_aarch64, P_manylinux2010_i686, P_manylinux2010_aarch64,
   S_manylinux2010, S_manylinux2014, P_manylinux1_x86_64, P_macosx_10_5_x86_64,
   P_macosx_10_3_x86_64, P_macosx_010_1_ppc, P_macosxcustom_10_1_ppc, P_macosx_x}

PlatformArgs ==
  {None} \cup {Some(p) : p \in {S_linux_x86_64, P_manylinux2014_x86_64,
                                P_manylinux2014_aarch64, P_manylinux2010_i686,
                                S_manylinux2010, P_macosx_10_5_x86_64,
                                P_macosx_10_3_x86_64, <<>>}}

VersionArgs ==
  {None, Some(<<>>), Some(<<"3">>), Some(<<"1", "0">>), Some(<<"3", "x">>)}

ImplArgs == {None, Some(S_cp), Some(<<"zz">>), Some(S_py)}

AbiArgs == {None, Some(S_none), Some(<<"NONE">>)}

\* ------------------------------------------------------------ operations
Start(envs) ==
  /\ env \in envs
  /\ op = "init"
  /\ args = <<>>
  /\ ret = Ok(<<>>, {})

CallGetPlatform ==
  /\ op = "init"
  /\ op' = "get_platform"
  /\ args' = <<>>
  /\ ret' = GetPlatform(env)
  /\ UNCHANGED env

CallIsLinuxArmhf ==
  /\ op = "init"
  /\ op' = "is_linux_armhf"
  /\ args' = <<>>
  /\ ret' = IsLinuxArmhf(env)
  /\ UNCHANGED env

CallIsManylinux1Compatible ==
  /\ op = "init"
  /\ op' = "is_manylinux1_compatible"
  /\ args' = <<>>
  /\ ret' = IsManylinux1Compatible(env)
  /\ UNCHANGED env

CallIsManylinux2010Compatible ==
  /\ op = "init"
  /\ op' = "is_manylinux2010_compatible"
  /\ args' = <<>>
  /\ ret' = IsManylinux2010Compatible(env)
  /\ UNCHANGED env

CallIsManylinux2014Compatible ==
  /\ op = "init"
  /\ op' = "is_manylinux2014_compatible"
  /\ args' = <<>>
  /\ ret' = IsManylinux2014Compatible(env)
  /\ UNCHANGED env

CallGetCustomPlatforms ==
  \E arch \in PlatformStrings, explicit \in BOOLEAN :
    LET platform == IF explicit THEN Some(arch) ELSE None
    IN /\ op = "init"
       /\ op' = "_get_custom_platforms"
       /\ args' = [arch |-> arch, platform |-> platform]
       /\ ret' = GetCustomPlatforms(env, arch, platform)
       /\ UNCHANGED env

CallGetSupported ==
  \E version \in VersionArgs, platform \in PlatformArgs, impl \in ImplArgs,
     abi \in AbiArgs :
    /\ op = "init"
    /\ op' = "get_supported"
    /\ args' = [version |-> version, platform |-> platform, impl |-> impl,
                abi |-> abi]
    /\ ret' = GetSupported(env, version, platform, impl, abi)
    /\ UNCHANGED env

\* the caller takes the result; the next call starts from scratch
Return ==
  /\ op # "init"
  /\ op' = "init"
  /\ args' = <<>>
  /\ ret' = Ok(<<>>, {})
  /\ UNCHANGED env

\* ------------------------------------------------------------ specifications
Init == Start(SupportedEnvs)

Next == CallGetSupported \/ Return

Spec == Init /\ [][Next]_vars

InitPlatform == Start(PlatformEnvs)

NextPlatform == CallGetPlatform \/ Return

SpecPlatform == InitPlatform /\ [][NextPlatform]_vars

InitArmhf == Start(ArmhfEnvs)

NextArmhf == CallIsLinuxArmhf \/ Return

SpecArmhf == InitArmhf /\ [][NextArmhf]_vars

InitManylinux == Start(ManylinuxEnvs)

NextManylinux ==
  \/ CallIsManylinux1Compatible
  \/ CallIsManylinux2010Compatible
  \/ CallIsManylinux2014Compatible
  \/ Return

SpecManylinux == InitManylinux /\ [][NextManylinux]_vars

ExpandEnvs ==
  {[BaseEnv EXCEPT !.distutils_platform = d, !.marker_present = m.present,
                   !.marker = m.attrs, !.glibc = g] :
     d \in {D_linux_x86_64, D_linux_aarch64}, m \in Markers,
     g \in {None, <<2, 12>>, <<2, 17>>}}
  \cup {[BaseEnv EXCEPT !.sys_platform = "darwin", !.mac_release = r,
                        !.mac_machine = S_x86_64] :
          r \in {<<>>, <<"1", "0", ".", "5">>}}

InitExpand == Start(ExpandEnvs)

NextExpand == CallGetCustomPlatforms \/ Return

SpecExpand == InitExpand /\ [][NextExpand]_vars

\* ------------------------------------------------------------ properties
Supported == op = "get_supported" /\ ret.exc = ""

Probes == {"marker", "glibc", "elf"}

\* the index of the first occurrence of x in s (x occurs in s)
FirstPos(s, x) == CHOOSE i \in 1..Len(s) : s[i] = x /\ \A j \in 1..(i - 1) : s[j] # x

Elems(s) == {s[i] : i \in 1..Len(s)}

\* C1: the result of get_supported holds no tag twice, holds exactly the tags
\* of the two generators, and orders them by their first occurrence in the
\* concatenation (first generator, then compatible_tags)
C1_UniqueStable ==
  Supported =>
    LET r == ret.val.tags
        c == ret.val.first \o ret.val.second
    IN /\ \A i, j \in 1..Len(r) : i # j => r[i] # r[j]
       /\ Elems(r) = Elems(c)
       /\ \A i, j \in 1..Len(r) : i < j => FirstPos(c, r[i]) < FirstPos(c, r[j])

\* a call whose two generators produced a common tag, which the result holds once
C1_Witness ==
  /\ Supported
  /\ Elems(ret.val.first) \cap Elems(ret.val.second) # {}
  /\ Len(ret.val.tags) < Len(ret.val.first) + Len(ret.val.second)

\* the manylinux tier of a platform string: 3, 2, 1 for manylinux2014,
\* manylinux2010, manylinux1, and 0 for a platform of no tier
TierOf(p) ==
  LET prefix == Partition(p, "_")[1]
  IN IF prefix = S_manylinux2014 THEN 3
     ELSE IF prefix = S_manylinux2010 THEN 2
     ELSE IF prefix = S_manylinux1 THEN 1
     ELSE 0

ExplicitNonMac ==
  /\ op = "get_supported"
  /\ args.platform # None
  /\ ~StartsWithMacosx(args.platform[1])

\* the expansion the claim C2 states: manylinux2014_x86_64 / _i686 and
\* manylinux2010_<arch> expand, every other platform is a singleton
ClaimedExpansion(p) ==
  LET part == Partition(p, "_")
  IN IF p \in {S_manylinux2014 \o <<"_">> \o S_x86_64, S_manylinux2014 \o <<"_">> \o S_i686}
     THEN <<p, S_manylinux2010 \o <<"_">> \o part[3], S_manylinux1 \o <<"_">> \o part[3]>>
     ELSE IF part[1] = S_manylinux2010 /\ part[2] = <<"_">>
     THEN <<p, S_manylinux1 \o <<"_">> \o part[3]>>
     ELSE <<p>>

\* the expansion of the amended C2: what stands before the first underscore
\* decides, with or without an architecture after it
StaticExpansion(p) ==
  LET part == Partition(p, "_")
  IN IF part[1] = S_manylinux2014 /\ part[3] \in {S_x86_64, S_i686}
     THEN <<p, S_manylinux2010 \o <<"_">> \o part[3], S_manylinux1 \o <<"_">> \o part[3]>>
     ELSE IF part[1] = S_manylinux2010
     THEN <<p, S_manylinux1 \o part[2] \o part[3]>>
     ELSE <<p>>

C3_ContainsInput ==
  (op = "_get_custom_platforms" /\ ret.exc = "") =>
    \E i \in 1..Len(ret.val) : ret.val[i] = args.arch

\* C4: get_supported never raises
C4_NeverRaises == op = "get_supported" => ret.exc = ""

\* the fallback path with impl "zz", a version and no abi
FallbackCall ==
  /\ Supported
  /\ args.impl = Some(<<"zz">>)
  /\ args.version # None
  /\ args.abi = None

\* C5 as stated: the fallback tags are (impl+version, none, p) for each
\* platform p of the expansion, and no other
C5_AsStated ==
  FallbackCall =>
    ret.val.first = TagsFor(<<"zz">> \o args.version[1], <<S_none>>, ret.val.used)

\* the ABIs of the amended C5: the running interpreter's ABI tag, when it
\* reports one, then none
FallbackAbis == (IF GetAbiTag(env) # None THEN <<GetAbiTag(env)[1]>> ELSE <<>>) \o <<S_none>>

\* C5 amended: the fallback tags are (impl+version, a, p) for a in [the
\* running interpreter's ABI tag if any, none] and each platform p of the
\* expansion, ABI by ABI; the result starts with them
C5_FallbackTags ==
  FallbackCall =>
    /\ ret.val.first = TagsFor(<<"zz">> \o args.version[1], FallbackAbis, ret.val.used)
    /\ Len(ret.val.tags) >= Len(ret.val.first)
    /\ SubSeq(ret.val.tags, 1, Len(ret.val.first)) = ret.val.first

\* impl "zz", version "10", the interpreter reports an ABI, several platforms
C5_Witness ==
  /\ FallbackCall
  /\ args.version = Some(<<"1", "0">>)
  /\ GetAbiTag(env) # None
  /\ Len(ret.val.used) > 1
  /\ Len(ret.val.first) = 2 * Len(ret.val.used)

\* the rank of a platform: manylinux2014, manylinux2010, manylinux1, the raw
\* platform, any
PlatformRank(p) ==
  IF p = S_any THEN 4
  ELSE IF TierOf(p) = 0 THEN 3
  ELSE 3 - TierOf(p)

\* C6: of two tags of a result with the same interpreter and ABI, the earlier
\* one's platform ranks at least as specific as the later one's
C6_OrderInvariant ==
  Supported =>
    \A i, j \in 1..Len(ret.val.tags) :
      (/\ i < j
       /\ ret.val.tags[i][1] = ret.val.tags[j][1]
       /\ ret.val.tags[i][2] = ret.val.tags[j][2])
      => PlatformRank(ret.val.tags[i][3]) <= PlatformRank(ret.val.tags[j][3])

\* C7: compatible_tags walks the platform list the first generator walked
C7_SamePlatformSet == Supported => ret.val.used = ret.val.compat

\* glibc is major.minor' with major 2 and minor' >= minor
GlibcFloor(minor) == env.glibc # None /\ env.glibc[1] = 2 /\ env.glibc[2] >= minor

Tiers ==
  {[name |-> "is_manylinux1_compatible", attr |-> "manylinux1_compatible",
    floor |-> 5, allowed |-> {S_linux_x86_64, S_linux_i686}],
   [name |-> "is_manylinux2010_compatible", attr |-> "manylinux2010_compatible",
    floor |-> 12, allowed |-> {S_linux_x86_64, S_linux_i686}],
   [name |-> "is_manylinux2014_compatible", attr |-> "manylinux2014_compatible",
    floor |-> 17,
    allowed |-> {S_linux_x86_64, S_linux_i686, S_linux_aarch64, S_linux_armv7l,
                 S_linux_ppc64, S_linux_ppc64le, S_linux_s390x}]}

\* the header of the running executable passes the six checks
HardFloatHeader ==
  LET b == env.exe_bytes
  IN /\ env.exe_ok
     /\ Len(b) >= 40
     /\ b[1] = 127 /\ b[2] = 69 /\ b[3] = 76 /\ b[4] = 70
     /\ b[5] = 1
     /\ b[6] = 1
     /\ b[19] = 40 /\ b[20] = 0
     /\ b[40] = 5
     /\ b[38] % 8 >= 4

\* the gate every tier shares: allow-list and, for manylinux2014 on armv7l,
\* the hard-float probe
TierGate(t) ==
  /\ GetPlatform(env).val \in t.allowed
  /\ (t.floor = 17 /\ GetPlatform(env).val = S_linux_armv7l) => HardFloatHeader

\* C8 as stated: true only behind the gate and with the marker module saying
\* yes or, with no module present, the glibc floor met; a present module
\* decides alone
C8_AsStated ==
  \A t \in Tiers :
    op = t.name =>
      /\ (ret.exc = "" /\ ret.val) =>
           /\ TierGate(t)
           /\ \/ env.marker_present /\ env.marker[t.attr] = "true"
              \/ ~env.marker_present /\ GlibcFloor(t.floor)
      /\ env.marker_present => "glibc" \notin ret.trace

\* C8 amended: true only behind the gate and with the marker module's
\* attribute for the tier true or, with no module or no such attribute, the
\* glibc floor met; a module that has the attribute decides alone
C8_MarkerThenGlibc ==
  \A t \in Tiers :
    op = t.name =>
      /\ (ret.exc = "" /\ ret.val) =>
           /\ TierGate(t)
           /\ \/ env.marker_present /\ env.marker[t.attr] = "true"
              \/ /\ ~env.marker_present \/ env.marker[t.attr] = "missing"
                 /\ GlibcFloor(t.floor)
      /\ (env.marker_present /\ env.marker[t.attr] # "missing")
           => "glibc" \notin ret.trace

\* manylinux2010 found compatible by glibc with a module that lacks the attribute
C8_Witness ==
  /\ op = "is_manylinux2010_compatible"
  /\ ret.exc = ""
  /\ ret.val
  /\ env.marker_present
  /\ env.marker["manylinux2010_compatible"] = "missing"
  /\ "glibc" \in ret.trace

ExpectedMacArch ==
  IF env.is32 /\ env.mac_machine = S_x86_64 THEN S_i386
  ELSE IF env.is32 /\ env.mac_machine = S_ppc64 THEN S_ppc
  ELSE env.mac_machine

\* C10: get_platform never raises; on macOS it returns
\* macosx_<major>_<minor>_<arch>, elsewhere the separator-normalized string
\* with linux_x86_64 narrowed to linux_i686 in a 32-bit process
C10_NeverRaises ==
  op = "get_platform" =>
    /\ ret.exc = ""
    /\ env.sys_platform = "darwin" =>
         \E major, minor \in {Split(env.mac_release, ".")[i] :
                                i \in 1..Len(Split(env.mac_release, "."))} :
           ret.val = <<"macosx", "_">> \o major \o <<"_">> \o minor \o <<"_">>
                       \o ExpectedMacArch
    /\ env.sys_platform # "darwin" =>
         ret.val = (IF env.is32 /\ ReplaceSeps(env.distutils_platform) = S_linux_x86_64
                    THEN S_linux_i686 ELSE ReplaceSeps(env.distutils_platform))

====
